---- MODULE Spec2Model ----
(***************************************************************************)
(* A state-machine model of fdisk.c, the MEGA65 FDISK + FORMAT utility.    *)
(*                                                                         *)
(* The program is one main() with goto-based rescans; the model follows    *)
(* its control flow with a program counter pc.  Both builds are modelled:  *)
(* variant = "firmware" is the __CC65__ build, variant = "host" the UNIX   *)
(* build.  Storage calls (sdcard_writesector, sdcard_erase) are recorded   *)
(* in the history sequence ops, from which the content of any sector is    *)
(* recovered.                                                              *)
(*                                                                         *)
(* uint32_t values are pairs <<hi, lo>> of 16-bit limbs (value hi*2^16+lo),*)
(* because the model checker's integers are narrower than the 33 bits      *)
(* needed to tell a wrapped result from a true one.  With hi any integer   *)
(* the same pairs serve as unbounded ("true") integers.                    *)
(*                                                                         *)
(* C strings are tuples of ASCII codes (the bytes before the NUL).         *)
(***************************************************************************)
EXTENDS Integers, Sequences, FiniteSets, TLC

(***************************************************************************)
(* Integer arithmetic on limb pairs                                        *)
(***************************************************************************)
Base == 256 * 256

\* <<hi, lo>> brought to canonical form, 0 <= lo < Base
Norm(hi, lo) == <<hi + (lo \div Base), lo % Base>>

\* the integer n as a limb pair
Z(n) == Norm(0, n)

ZAdd(a, b) == Norm(a[1] + b[1], a[2] + b[2])

ZSub(a, b) == Norm(a[1] - b[1], a[2] - b[2])

\* a * k for a small factor k
ZMulK(a, k) == Norm(a[1] * k, a[2] * k)

\* floor(a / d) for a >= 0 and a small divisor d (schoolbook long division)
ZDivK(a, d) == <<a[1] \div d, (((a[1] % d) * Base) + a[2]) \div d>>

\* a mod d for a >= 0 and a small divisor d
ZModK(a, d) == (((a[1] % d) * Base) + a[2]) % d

ZLt(a, b) == a[1] < b[1] \/ (a[1] = b[1] /\ a[2] < b[2])

ZLe(a, b) == a = b \/ ZLt(a, b)

\* reduction modulo 2^32: what storing into a uint32_t does
Wrap32(a) == <<a[1] % Base, a[2]>>

Add32(a, b) == Wrap32(ZAdd(a, b))

Sub32(a, b) == Wrap32(ZSub(a, b))

Mul32K(a, k) == Wrap32(ZMulK(a, k))

\* a & 0xfffff800
AndFFFFF800(a) == <<a[1], a[2] - (a[2] % 2048)>>

\* truncation to uint16_t
Low16(a) == a[2]

(***************************************************************************)
(* Program constants                                                       *)
(***************************************************************************)
MAX_SLOT == 8

reserved_sectors == 568

sectors_per_cluster == 8

\* 2 * 1024 * (1024 * 1024 / 512): the 2 GiB cap on the system partition
SysPartitionCap == <<64, 0>>

\* cards[b] when sdcard_reset() finds no card on bus b
NoCard == <<>>

(***************************************************************************)
(* String literals of the program, as ASCII codes                          *)
(***************************************************************************)
STR_DELETE_EVERYTHING == <<68, 69, 76, 69, 84, 69, 32, 69, 86, 69, 82, 89, 84, 72, 73, 78, 71>>

STR_FIX_MBR == <<70, 73, 88, 32, 77, 66, 82>>

STR_FOLTERLOS_MODUS_BITTE == <<70, 79, 76, 84, 69, 82, 76, 79, 83, 32, 77, 79, 68, 85, 83, 32, 66, 73, 84, 84, 69>>

STR_BATCH_MODE == <<66, 65, 84, 67, 72, 32, 77, 79, 68, 69>>

\* "Please select SD card to modify or r to rescan ("
STR_PleaseSelect == <<80, 108, 101, 97, 115, 101, 32, 115, 101, 108, 101, 99, 116, 32, 83, 68, 32, 99, 97, 114, 100, 32, 116, 111, 32, 109, 111, 100, 105, 102, 121, 32, 111, 114, 32, 114, 32, 116, 111, 32, 114, 101, 115, 99, 97, 110, 32, 40>>

\* "Format "
STR_Format == <<70, 111, 114, 109, 97, 116, 32>>

STR_external == <<101, 120, 116, 101, 114, 110, 97, 108>>

STR_internal == <<105, 110, 116, 101, 114, 110, 97, 108>>

\* " Card with new partition table and FAT32 file system?"
STR_CardWith == <<32, 67, 97, 114, 100, 32, 119, 105, 116, 104, 32, 110, 101, 119, 32, 112, 97, 114, 116, 105, 116, 105, 111, 110, 32, 116, 97, 98, 108, 101, 32, 97, 110, 100, 32, 70, 65, 84, 51, 50, 32, 102, 105, 108, 101, 32, 115, 121, 115, 116, 101, 109, 63>>

\* "Using files embedded in slot @" with '@' replaced by the slot digit
STR_UsingFiles(slot) == <<85, 115, 105, 110, 103, 32, 102, 105, 108, 101, 115, 32, 101, 109, 98, 101, 100, 100, 101, 100, 32, 105, 110, 32, 115, 108, 111, 116, 32, 48 + slot>>

\* "(#) MEGA65 -    Files" with '#' replaced by the slot digit and the
\* two-digit file count formatted at offset 13
STR_SlotFiles(slot, n) == <<40, 48 + slot, 41, 32, 77, 69, 71, 65, 54, 53, 32, 45, 32, 48 + ((n \div 10) % 10), 48 + (n % 10), 32, 70, 105, 108, 101, 115>>

STR_MEGA65_ROM == <<77, 69, 71, 65, 54, 53, 46, 82, 79, 77>>

CR == 13

LF == 10

(***************************************************************************)
(* Bounds of the model and the inputs drawn from them                      *)
(***************************************************************************)
\* sweep of device sizes just above the smallest FAT partition
MaxSweep == 4

\* device sizes 2^16 .. 2^(16+MaxPow) sectors
MaxPow == 14

\* cap on the iterations of the cluster-fitting loop that are explored
MaxFitIterations == 16

\* cap on the prompts and "text does not match" messages that are counted
MaxMismatch == 2

\* cap on the formatting passes of one run (goto next_card)
MaxPass == 2

RECURSIVE Pow2(_)
Pow2(n) == IF n = 0 THEN 1 ELSE 2 * Pow2(n - 1)

\* sizes below 0x800 + 568 sectors: the subtractions of the planner wrap
TinySizes == {Z(0), Z(2047), Z(2048), Z(2048 + 567)}

\* sizes whose FAT partition holds 0, 1, 2, 3, ... clusters
SweepSizes == {Z(2048 + 568 + (8 * k)) : k \in 0..MaxSweep}

\* around the first size with a system partition
SmallSizes == {Z(4096), Z(6143), Z(6144), Z(8192), Z(32768)}

PowerSizes == {<<Pow2(e), 0>> : e \in 0..MaxPow}

\* the largest sizes a uint32_t can report
HugeSizes == {<<65400, 0>>, <<65472, 0>>, <<65473, 0>>, <<65535, 65535>>}

\* the values sdcard_getsize() may return
SectorCounts == TinySizes \cup SweepSizes \cup SmallSizes \cup PowerSizes \cup HugeSizes

\* the card in the external slot, when there is one
ExternalCardSize == Z(8192)

\* lines the operator may type at the firmware prompt (read_line)
KeyboardLines == {STR_DELETE_EVERYTHING, STR_FIX_MBR, STR_FOLTERLOS_MODUS_BITTE, STR_BATCH_MODE, <<>>, STR_DELETE_EVERYTHING \o <<32>>, <<100, 101, 108, 101, 116, 101>>, STR_Format \o STR_internal \o STR_CardWith}

\* what the host build may find on stdin; <<>> is an empty stdin (EOF)
StdinContents == {STR_DELETE_EVERYTHING \o <<LF>>, STR_DELETE_EVERYTHING \o <<CR, LF>>, STR_DELETE_EVERYTHING, STR_DELETE_EVERYTHING \o <<CR>>, STR_DELETE_EVERYTHING \o <<LF, 68>>, STR_FIX_MBR \o <<LF>>, STR_DELETE_EVERYTHING \o <<32, LF>>, <<LF>>, <<CR, CR, LF>>, <<>>}

\* what an uninitialised line[] may hold when fgets() read nothing
GarbageLines == {STR_DELETE_EVERYTHING, <<>>, <<63, 63>>}

(***************************************************************************)
(* State                                                                   *)
(***************************************************************************)
VARIABLES
    variant,                   \* "firmware" (__CC65__) or "host"
    pc,                        \* position in main()
    cards,                     \* environment: size of the card on bus 0 / 1
    slotAvail,
    cardSlot,
    selected,                  \* bus last passed to sdcard_select()
    sdcard_sectors,
    sys_partition_start,
    sys_partition_sectors,
    fat_partition_start,
    fat_partition_sectors,
    fat_available_sectors,
    fs_clusters,
    fat_sectors,
    sectors_required,
    fat1_sector,
    fat2_sector,
    rootdir_sector,
    fs_data_sectors,
    sys_partition_freeze_dir,
    freeze_dir_sectors,
    sys_partition_service_dir,
    service_dir_sectors,
    sector_buffer,             \* the image held by the shared sector buffer
    buffer,                    \* char buffer[80]
    dont_confirm,
    ops,                       \* history of sdcard_writesector / sdcard_erase
    exit_code,                 \* host: process exit status, -1 while running
    flash,                     \* environment: the eight firmware slots
    argv,                      \* environment: host file arguments
    mega65slot,
    populate_slot,             \* the argument of populate_file_system
    file_count,
    file_offset,
    i,                         \* loop index of the file loops
    have_rom,
    have_sdfiles,
    allocs,                    \* history of fat32_create_contiguous_file calls
    typed,                     \* history: last line read at a confirmation
    prompts,                   \* history: read_line/fgets calls of this pass
    mismatches,                \* history: mismatch messages shown (capped)
    fit_iterations,            \* history: iterations of the fitting loop
    pass                       \* history: number of the current pass

envVars == <<variant, cards, flash, argv>>

fileVars == <<mega65slot, populate_slot, file_count, file_offset, i, have_rom, have_sdfiles, allocs>>

cardVars == <<slotAvail, cardSlot, selected, sdcard_sectors>>

planVars == <<sys_partition_start, sys_partition_sectors, fat_partition_start, fat_partition_sectors, fat_available_sectors, fs_clusters, fat_sectors, sectors_required, fat1_sector, fat2_sector, rootdir_sector, fs_data_sectors>>

sysVars == <<sys_partition_freeze_dir, freeze_dir_sectors, sys_partition_service_dir, service_dir_sectors>>

histVars == <<typed, prompts, mismatches, fit_iterations, pass>>

vars == <<envVars, pc, cardVars, planVars, sysVars, sector_buffer, buffer, dont_confirm, ops, exit_code, fileVars, histVars>>

(***************************************************************************)
(* Sector images.  Every builder clears the shared buffer and then sets    *)
(* fields that depend only on its arguments, so an image is named by its   *)
(* builder and arguments.                                                  *)
(***************************************************************************)
Image(kind, args) == [kind |-> kind, args |-> args]

\* what a sector of the card on `bus` held before the run
OldImage(bus, lba) == Image("old", <<Z(bus), lba>>)

\* sector_buffer at program start, and a sector after sdcard_erase
ZeroImage == Image("zero", <<>>)

build_mbr(sys_start, sys_sectors, fat_start, fat_sectors_) == Image("mbr", <<sys_start, sys_sectors, fat_start, fat_sectors_>>)

build_dosbootsector(data_sectors, fs_sectors_per_fat) == Image("dosbootsector", <<data_sectors, fs_sectors_per_fat>>)

build_fs_information_sector(clusters) == Image("fs_information", <<Sub32(clusters, Z(3)), Z(3)>>)

build_empty_fat == Image("empty_fat", <<>>)

build_root_dir == Image("root_dir", <<>>)

build_mega65_sys_config_sector == Image("sys_config", <<>>)

\* build_mega65_sys_sector: slot_size and reserved_sectors are its locals
SysSlotSize == (512 * 1024) \div 512

SysReservedSectors == (1024 * 1024) \div 512

SlotCountOf(sys_sectors) ==
    LET q == ZDivK(Sub32(sys_sectors, Z(SysReservedSectors)), (SysSlotSize * 2) + 1)
    IN  IF ZLe(Z(65535), q) THEN 65535 ELSE q[2]

DirSizeOf(slot_count) == (1 + (slot_count \div 4)) % Base

\* the globals and the image build_mega65_sys_sector leaves behind, given
\* the value sys_partition_start has when it is called
build_mega65_sys_sector(sys_sectors, sys_start) ==
    LET slot_count == SlotCountOf(sys_sectors)
        dir_size == DirSizeOf(slot_count)
        freeze_rel == Z(SysReservedSectors)
        service_rel == Add32(freeze_rel, Mul32K(Z(slot_count), SysSlotSize))
        area == Add32(Mul32K(Z(slot_count), SysSlotSize), Z(dir_size))
    IN  [freeze_dir_sectors |-> dir_size,
         service_dir_sectors |-> dir_size,
         sys_partition_freeze_dir |-> Add32(freeze_rel, sys_start),
         sys_partition_service_dir |-> Add32(service_rel, sys_start),
         image |-> Image("sys_sector", <<Z(0), area, Z(SysSlotSize), Z(slot_count), Z(dir_size), area, area, Z(SysSlotSize), Z(slot_count), Z(dir_size)>>)]

(***************************************************************************)
(* Environment of the file population: firmware slots and host arguments   *)
(***************************************************************************)
\* a staged-file header of a firmware slot: next is the position in the
\* slot's chain that the header's next-offset field points to
FlashFile(name, len, next) == [name |-> name, len |-> len, next |-> next]

\* first sector of a slot: magic is whether both magic strings match
FlashSlot(magic, version0, count, files) == [magic |-> magic, version0 |-> version0, file_count |-> count, files |-> files]

BlankSlot == FlashSlot(FALSE, 0, 0, <<>>)

BlankFlash == [n \in 1..MAX_SLOT |-> BlankSlot]

\* "FREEZER.M65"
STR_FREEZER_M65 == <<70, 82, 69, 69, 90, 69, 82, 46, 77, 54, 53>>

\* "ABCDEFGHIJ", a name without extension
STR_ABCDEFGHIJ == <<65, 66, 67, 68, 69, 70, 71, 72, 73, 74>>

\* a core with two files in slot 0
CoreWithRom == FlashSlot(TRUE, 86, 2, <<FlashFile(STR_MEGA65_ROM, 1024, 2), FlashFile(STR_FREEZER_M65, 700, 3)>>)

\* a core with one empty file
CoreWithEmptyFile == FlashSlot(TRUE, 86, 1, <<FlashFile(STR_ABCDEFGHIJ, 0, 2)>>)

\* contents of the flash: slot n of the program is flash[n + 1]
FlashImages == {BlankFlash, [BlankFlash EXCEPT ![1] = CoreWithRom], [BlankFlash EXCEPT ![1] = FlashSlot(FALSE, 86, 2, <<>>), ![2] = CoreWithEmptyFile, ![3] = FlashSlot(TRUE, 86, 0, <<>>)]}

\* a host argument: a path, whether fopen() succeeds, and st_size
HostArg(path, readable, size) == [path |-> path, readable |-> readable, size |-> size]

\* argv[1..] of the host build
ArgLists == {<<>>, <<HostArg(<<97, 46, 98>>, TRUE, 512)>>, <<HostArg(<<97, 46, 98>>, FALSE, 0)>>, <<HostArg(STR_ABCDEFGHIJ, TRUE, 10)>>, <<HostArg(STR_FREEZER_M65, TRUE, 700), HostArg(<<70, 82, 69, 69, 90, 69, 82, 49, 50, 46, 77>>, TRUE, 1)>>}

\* mega65slot[n] of a slot without valid magic
EmptySlotInfo == [version0 |-> 0, file_count |-> 0, file_offset |-> 0]

\* the sector flash_readsector() leaves in the buffer
FlashImage(slot, header, offset) == Image("flash", <<Z(slot), Z(header), Z(offset)>>)

\* sector number k of host argument number n, as fread() delivers it
FileImage(n, k) == Image("file", <<Z(n), Z(k)>>)

\* the buffer as fat32_create_contiguous_file leaves it
AllocatorScratch == Image("fat32_scratch", <<>>)

(***************************************************************************)
(* The storage collaborator                                                *)
(***************************************************************************)
WriteOp(bus, lba, img) == [op |-> "write", bus |-> bus, lba |-> lba, end |-> lba, img |-> img]

EraseOp(bus, first, last) == [op |-> "erase", bus |-> bus, lba |-> first, end |-> last, img |-> ZeroImage]

Covers(o, bus, lba) == o.bus = bus /\ ZLe(o.lba, lba) /\ ZLe(lba, o.end)

\* the content of sector lba of the card on `bus` after the operations in log
RECURSIVE SectorAfter(_, _, _)
SectorAfter(log, bus, lba) ==
    IF log = <<>> THEN OldImage(bus, lba)
    ELSE IF Covers(log[Len(log)], bus, lba) THEN log[Len(log)].img
    ELSE SectorAfter(SubSeq(log, 1, Len(log) - 1), bus, lba)

\* sdcard_readsector
sdcard_readsector(bus, lba) == SectorAfter(ops, bus, lba)

(***************************************************************************)
(* Initial state: the globals of fdisk.c are zero-initialised               *)
(***************************************************************************)
\* value of the history variable typed
Typed(how, line) == [how |-> how, line |-> line]

NothingTyped == Typed("none", <<>>)

Init ==
    /\ variant \in {"firmware", "host"}
    /\ cards \in IF variant = "firmware"
                 THEN {c \in [0..1 -> SectorCounts \cup {NoCard}] : c[1] \in {NoCard, ExternalCardSize}}
                 ELSE {[b \in 0..1 |-> s] : s \in SectorCounts}
    /\ pc = "start"
    /\ slotAvail = 0
    /\ cardSlot = 0
    /\ selected = 0
    /\ sdcard_sectors = Z(0)
    /\ sys_partition_start = Z(0)
    /\ sys_partition_sectors = Z(0)
    /\ fat_partition_start = Z(0)
    /\ fat_partition_sectors = Z(0)
    /\ fat_available_sectors = Z(0)
    /\ fs_clusters = Z(0)
    /\ fat_sectors = Z(0)
    /\ sectors_required = Z(0)
    /\ fat1_sector = Z(0)
    /\ fat2_sector = Z(0)
    /\ rootdir_sector = Z(0)
    /\ fs_data_sectors = Z(0)
    /\ sys_partition_freeze_dir = Z(0)
    /\ freeze_dir_sectors = 0
    /\ sys_partition_service_dir = Z(0)
    /\ service_dir_sectors = 0
    /\ sector_buffer = ZeroImage
    /\ buffer = <<>>
    /\ dont_confirm = 0
    /\ ops = <<>>
    /\ exit_code = -1
    /\ flash \in IF variant = "firmware" THEN FlashImages ELSE {BlankFlash}
    /\ argv \in IF variant = "host" THEN ArgLists ELSE {<<>>}
    /\ mega65slot = [n \in 1..MAX_SLOT |-> EmptySlotInfo]
    /\ populate_slot = 0
    /\ file_count = 0
    /\ file_offset = 0
    /\ i = 0
    /\ have_rom = 0
    /\ have_sdfiles = 0
    /\ allocs = <<>>
    /\ typed = NothingTyped
    /\ prompts = 0
    /\ mismatches = 0
    /\ fit_iterations = 0
    /\ pass = 1

(***************************************************************************)
(* Card detection and selection                                            *)
(***************************************************************************)
\* the bus whose card show_mbr() read last during detection, or NoCard
LastDetected == IF cards[1] # NoCard THEN 1 ELSE IF cards[0] # NoCard THEN 0 ELSE -1

\* rescanSlots / next_card up to the card-selection prompt
Probe ==
    /\ pc = "start"
    /\ slotAvail' = (IF cards[0] # NoCard THEN 1 ELSE 0) + (IF cards[1] # NoCard THEN 2 ELSE 0)
    /\ selected' = 1
    /\ sdcard_sectors' = IF LastDetected = -1 THEN sdcard_sectors ELSE cards[LastDetected]
    /\ sector_buffer' = IF LastDetected = -1 THEN sector_buffer ELSE sdcard_readsector(LastDetected, Z(0))
    /\ buffer' = STR_PleaseSelect \o (IF cards[0] # NoCard THEN <<48, 47>> ELSE <<>>) \o (IF cards[1] # NoCard THEN <<49, 47>> ELSE <<>>) \o <<114, 41, 58, 32>>
    /\ pc' = IF variant = "firmware" THEN "select" ELSE "plan"
    /\ UNCHANGED <<envVars, cardSlot, planVars, sysVars, dont_confirm, ops, exit_code, fileVars, histVars>>

\* the keys mega65_getkey() leaves the selection loop with
SelectableKeys == {114} \cup (IF slotAvail % 2 = 1 THEN {48} ELSE {}) \cup (IF slotAvail \div 2 = 1 THEN {49} ELSE {})

\* the operator presses r, 0 or 1
SelectCard ==
    /\ pc = "select"
    /\ \E key \in SelectableKeys :
        IF key = 114
        THEN /\ pc' = "start"
             /\ UNCHANGED <<cardSlot, selected>>
        ELSE /\ cardSlot' = key % 2
             /\ selected' = key % 2
             /\ pc' = "plan"
    /\ UNCHANGED <<envVars, slotAvail, sdcard_sectors, planVars, sysVars, sector_buffer, buffer, dont_confirm, ops, exit_code, fileVars, histVars>>

(***************************************************************************)
(* PartitionPlanner                                                        *)
(***************************************************************************)
\* fs_clusters / (512 / 4), plus one if there is a remainder
FatSectorsFor(clusters) == IF ZModK(clusters, 512 \div 4) # 0 THEN Add32(ZDivK(clusters, 512 \div 4), Z(1)) ELSE ZDivK(clusters, 512 \div 4)

\* 2 * fat_sectors + ((fs_clusters - 2) * sectors_per_cluster), in uint32_t
SectorsRequiredFor(fats, clusters) == Add32(Mul32K(fats, 2), Mul32K(Sub32(clusters, Z(2)), sectors_per_cluster))

\* a system partition size that is not rounded down to 1 MiB: C4 tells it
\* from the size the code computes
SysPartitionSectorsFor_unrounded(total) ==
    LET half == ZDivK(Sub32(total, Z(2048)), 2)
    IN  IF ZLt(SysPartitionCap, half) THEN SysPartitionCap ELSE half

\* (sdcard_sectors - 0x0800) >> 1, capped at 2 GiB, rounded down to 1 MiB
SysPartitionSectorsFor(total) ==
    LET half == ZDivK(Sub32(total, Z(2048)), 2)
    IN  AndFFFFF800(IF ZLt(SysPartitionCap, half) THEN SysPartitionCap ELSE half)

\* from the selected card's size to the first sectors_required
Plan ==
    /\ pc = "plan"
    /\ sdcard_sectors' = cards[selected]
    /\ sector_buffer' = sdcard_readsector(selected, Z(0))
    /\ sys_partition_sectors' = SysPartitionSectorsFor(sdcard_sectors')
    /\ fat_partition_sectors' = Sub32(Sub32(sdcard_sectors', Z(2048)), sys_partition_sectors')
    /\ fat_available_sectors' = Sub32(fat_partition_sectors', Z(reserved_sectors))
    /\ fs_clusters' = ZDivK(fat_available_sectors', sectors_per_cluster)
    /\ fat_sectors' = FatSectorsFor(fs_clusters')
    /\ sectors_required' = SectorsRequiredFor(fat_sectors', fs_clusters')
    /\ fit_iterations' = 0
    /\ pc' = "fit"
    /\ UNCHANGED <<envVars, slotAvail, cardSlot, selected, sys_partition_start, fat_partition_start, fat1_sector, fat2_sector, rootdir_sector, fs_data_sectors, sysVars, buffer, dont_confirm, ops, exit_code, fileVars, typed, prompts, mismatches, pass>>

\* a step without the lower limit of 1: C18 tells it from the delta of the
\* code
DeltaFor_withoutMinimum(required, available) ==
    LET excess_sectors == Sub32(required, available)
    IN  ZDivK(excess_sectors, 1 + sectors_per_cluster)

\* delta: excess_sectors / (1 + sectors_per_cluster), at least 1
DeltaFor(required, available) ==
    LET excess_sectors == Sub32(required, available)
        delta == ZDivK(excess_sectors, 1 + sectors_per_cluster)
    IN  IF ZLt(delta, Z(1)) THEN Z(1) ELSE delta

\* one iteration of while (sectors_required > fat_available_sectors)
FitStep ==
    /\ pc = "fit"
    /\ ZLt(fat_available_sectors, sectors_required)
    /\ fit_iterations < MaxFitIterations
    /\ fs_clusters' = Sub32(fs_clusters, DeltaFor(sectors_required, fat_available_sectors))
    /\ fat_sectors' = FatSectorsFor(fs_clusters')
    /\ sectors_required' = SectorsRequiredFor(fat_sectors', fs_clusters')
    /\ fit_iterations' = fit_iterations + 1
    /\ UNCHANGED <<envVars, pc, cardVars, sys_partition_start, sys_partition_sectors, fat_partition_start, fat_partition_sectors, fat_available_sectors, fat1_sector, fat2_sector, rootdir_sector, fs_data_sectors, sysVars, sector_buffer, buffer, dont_confirm, ops, exit_code, fileVars, typed, prompts, mismatches, pass>>

\* the loop has exited: partition starts, FAT layout, and (firmware) the
\* summary shown before the confirmation prompt
PlanFinish ==
    /\ pc = "fit"
    /\ ~ZLt(fat_available_sectors, sectors_required)
    /\ LET sys == build_mega65_sys_sector(sys_partition_sectors, sys_partition_start)
       IN  IF variant = "firmware"
           THEN /\ sys_partition_freeze_dir' = sys.sys_partition_freeze_dir
                /\ sys_partition_service_dir' = sys.sys_partition_service_dir
                /\ freeze_dir_sectors' = sys.freeze_dir_sectors
                /\ service_dir_sectors' = sys.service_dir_sectors
                /\ sector_buffer' = sys.image
                /\ buffer' = STR_Format \o (IF cardSlot % 2 = 1 THEN STR_external ELSE STR_internal) \o STR_CardWith
           ELSE UNCHANGED <<sysVars, sector_buffer, buffer>>
    /\ fat_partition_start' = Z(2048)
    /\ sys_partition_start' = Add32(fat_partition_start', fat_partition_sectors)
    /\ fat1_sector' = Z(reserved_sectors)
    /\ fat2_sector' = Add32(fat1_sector', fat_sectors)
    /\ rootdir_sector' = Add32(fat2_sector', fat_sectors)
    /\ fs_data_sectors' = Mul32K(fs_clusters, sectors_per_cluster)
    /\ prompts' = 0
    /\ pc' = "confirm"
    /\ UNCHANGED <<envVars, cardVars, sys_partition_sectors, fat_partition_sectors, fat_available_sectors, fs_clusters, fat_sectors, sectors_required, dont_confirm, ops, exit_code, fileVars, typed, mismatches, fit_iterations, pass>>

(***************************************************************************)
(* Confirmation                                                            *)
(***************************************************************************)
\* a history counter, counted up to MaxMismatch
Counted(n) == IF n < MaxMismatch THEN n + 1 ELSE n

\* a confirmation loop without the "BATCH MODE" alias: C2 tells it from the
\* loop of the code
ConfirmOutcome_withoutAlias(text) ==
    IF text = STR_FIX_MBR THEN "fix_mbr"
    ELSE IF text = STR_FOLTERLOS_MODUS_BITTE THEN "batch"
    ELSE IF text # STR_DELETE_EVERYTHING THEN "mismatch"
    ELSE "proceed"

\* the if / else-if chain on strcmp(..., buffer) of the firmware loop
ConfirmOutcome(text) ==
    IF text = STR_FIX_MBR THEN "fix_mbr"
    ELSE IF text = STR_FOLTERLOS_MODUS_BITTE THEN "batch"
    ELSE IF text # STR_DELETE_EVERYTHING /\ text # STR_BATCH_MODE THEN "mismatch"
    ELSE "proceed"

\* One iteration of the firmware's while (1): with prompts enabled a line is
\* read into buffer, otherwise buffer is compared as it stands.
Confirm(line) ==
    /\ pc = "confirm"
    /\ variant = "firmware"
    /\ IF dont_confirm = 0
       THEN /\ buffer' = line
            /\ typed' = Typed("line", line)
            /\ prompts' = Counted(prompts)
       ELSE UNCHANGED <<buffer, typed, prompts>>
    /\ UNCHANGED <<envVars, cardVars, planVars, sysVars, exit_code, fileVars, fit_iterations, pass>>

\* "FIX MBR": the MBR is rewritten and shown, then the program spins
ConfirmFixMbr ==
    /\ \E line \in KeyboardLines :
        /\ Confirm(line)
        /\ ConfirmOutcome(buffer') = "fix_mbr"
    /\ sector_buffer' = build_mbr(sys_partition_start, sys_partition_sectors, fat_partition_start, fat_partition_sectors)
    /\ ops' = Append(ops, WriteOp(selected, Z(0), sector_buffer'))
    /\ pc' = "mbr_rewritten"
    /\ UNCHANGED <<dont_confirm, mismatches>>

\* "FOLTERLOS MODUS BITTE": no more prompts for the rest of the run
ConfirmBatch ==
    /\ \E line \in KeyboardLines :
        /\ Confirm(line)
        /\ ConfirmOutcome(buffer') = "batch"
    /\ dont_confirm' = 1
    /\ pc' = "format_mbr"
    /\ UNCHANGED <<sector_buffer, ops, mismatches>>

\* "Entered text does not match. Try again."
ConfirmMismatch ==
    /\ \E line \in KeyboardLines :
        /\ Confirm(line)
        /\ ConfirmOutcome(buffer') = "mismatch"
    /\ mismatches' = Counted(mismatches)
    /\ pc' = "confirm"
    /\ UNCHANGED <<sector_buffer, ops, dont_confirm>>

\* the string matches: proceed
ConfirmProceed ==
    /\ \E line \in KeyboardLines :
        /\ Confirm(line)
        /\ ConfirmOutcome(buffer') = "proceed"
    /\ pc' = "format_mbr"
    /\ UNCHANGED <<sector_buffer, ops, dont_confirm, mismatches>>

\* a "FIX MBR" branch without its closing while (1): C8 tells it from the
\* branch of the code
SpinAfterFixMbr_fallthrough ==
    /\ pc = "mbr_rewritten"
    /\ pc' = "format_mbr"
    /\ UNCHANGED <<envVars, cardVars, planVars, sysVars, sector_buffer, buffer, dont_confirm, ops, exit_code, fileVars, histVars>>

\* while (1) continue; after "MBR Re-written"
SpinAfterFixMbr ==
    /\ pc = "mbr_rewritten"
    /\ UNCHANGED vars

\* fgets(line, 1024, stdin): up to and including the first newline
RECURSIVE Fgets(_)
Fgets(input) ==
    IF input = <<>> THEN <<>>
    ELSE IF Head(input) = LF THEN <<LF>>
    ELSE <<Head(input)>> \o Fgets(Tail(input))

\* while (line[0] && line[strlen(line) - 1] == c) line[strlen(line) - 1] = 0;
RECURSIVE StripTrailing(_, _)
StripTrailing(line, c) ==
    IF line # <<>> /\ line[Len(line)] = c THEN StripTrailing(SubSeq(line, 1, Len(line) - 1), c) ELSE line

\* a comparison of the first 17 characters only (strncmp): C1 tells it from
\* the strcmp of the code
HostLineMatches_prefix(line) == Len(line) >= Len(STR_DELETE_EVERYTHING) /\ SubSeq(line, 1, Len(STR_DELETE_EVERYTHING)) = STR_DELETE_EVERYTHING

\* strcmp(line, "DELETE EVERYTHING") == 0 after the two stripping loops
HostLineMatches(line) == StripTrailing(StripTrailing(line, LF), CR) = STR_DELETE_EVERYTHING

\* the lines line[] may hold after fgets() on the given stdin: what was
\* read, or, when nothing was read, whatever the uninitialised array held
HostLines(input) == IF input = <<>> THEN GarbageLines ELSE {Fgets(input)}

\* host build: one line from stdin decides between exit(-1) and formatting
HostConfirm ==
    /\ pc = "confirm"
    /\ variant = "host"
    /\ \E input \in StdinContents : \E line \in HostLines(input) :
        /\ typed' = Typed(IF input = <<>> THEN "eof" ELSE "line", line)
        /\ IF HostLineMatches(line)
           THEN /\ pc' = "format_mbr"
                /\ exit_code' = exit_code
           ELSE /\ pc' = "exited"
                /\ exit_code' = 255
    /\ prompts' = Counted(prompts)
    /\ UNCHANGED <<envVars, cardVars, planVars, sysVars, sector_buffer, buffer, dont_confirm, ops, fileVars, mismatches, fit_iterations, pass>>

\* an order that lays down the FAT32 metadata before the system partition:
\* C3 tells it from the order of the code
FormatSuccessor_fatFirst(p) ==
    CASE p = "format_mbr" -> "format_bootsector"
      [] p = "format_bootsector" -> "format_fs_information"
      [] p = "format_fs_information" -> "format_fats"
      [] p = "format_fats" -> "format_root_dir"
      [] p = "format_root_dir" -> "format_sys_sector"
      [] p = "format_sys_sector" -> "format_sys_config"
      [] p = "format_sys_config" -> "erase_config_area"
      [] p = "erase_config_area" -> "erase_freeze_dir"
      [] p = "erase_freeze_dir" -> "erase_service_dir"
      [] p = "erase_service_dir" -> "erase_gaps"
      [] p = "erase_gaps" -> "formatted"

(***************************************************************************)
(* Formatting                                                              *)
(***************************************************************************)
\* the order of the blocks of main() between the confirmation and the
\* population of the new volume
FormatSuccessor(p) ==
    CASE p = "format_mbr" -> "format_sys_sector"
      [] p = "format_sys_sector" -> "format_sys_config"
      [] p = "format_sys_config" -> "erase_config_area"
      [] p = "erase_config_area" -> "erase_freeze_dir"
      [] p = "erase_freeze_dir" -> "erase_service_dir"
      [] p = "erase_service_dir" -> "format_bootsector"
      [] p = "format_bootsector" -> "format_fs_information"
      [] p = "format_fs_information" -> "format_fats"
      [] p = "format_fats" -> "format_root_dir"
      [] p = "format_root_dir" -> "erase_gaps"
      [] p = "erase_gaps" -> "formatted"

\* what every formatting step leaves alone
FormatFrame == UNCHANGED <<envVars, cardVars, planVars, buffer, dont_confirm, exit_code, fileVars, histVars>>

sdcard_writesector(lba) == ops' = Append(ops, WriteOp(selected, lba, sector_buffer'))

\* build_mbr, sdcard_writesector(0), show_mbr
WriteMBR ==
    /\ pc = "format_mbr"
    /\ sector_buffer' = build_mbr(sys_partition_start, sys_partition_sectors, fat_partition_start, fat_partition_sectors)
    /\ sdcard_writesector(Z(0))
    /\ pc' = FormatSuccessor(pc)
    /\ UNCHANGED sysVars
    /\ FormatFrame

\* build_mega65_sys_sector, sdcard_writesector(sys_partition_start)
WriteSysSector ==
    /\ pc = "format_sys_sector"
    /\ LET sys == build_mega65_sys_sector(sys_partition_sectors, sys_partition_start)
       IN  /\ sys_partition_freeze_dir' = sys.sys_partition_freeze_dir
           /\ sys_partition_service_dir' = sys.sys_partition_service_dir
           /\ freeze_dir_sectors' = sys.freeze_dir_sectors
           /\ service_dir_sectors' = sys.service_dir_sectors
           /\ sector_buffer' = sys.image
    /\ sdcard_writesector(sys_partition_start)
    /\ pc' = FormatSuccessor(pc)
    /\ FormatFrame

\* build_mega65_sys_config_sector, sdcard_writesector(sys_partition_start + 1L)
WriteSysConfig ==
    /\ pc = "format_sys_config"
    /\ sector_buffer' = build_mega65_sys_config_sector
    /\ sdcard_writesector(Add32(sys_partition_start, Z(1)))
    /\ pc' = FormatSuccessor(pc)
    /\ UNCHANGED sysVars
    /\ FormatFrame

\* sdcard_erase(sys_partition_start + 2, sys_partition_start + 1023)
EraseConfigArea ==
    /\ pc = "erase_config_area"
    /\ ops' = Append(ops, EraseOp(selected, Add32(sys_partition_start, Z(2)), Add32(sys_partition_start, Z(1023))))
    /\ pc' = FormatSuccessor(pc)
    /\ UNCHANGED <<sysVars, sector_buffer>>
    /\ FormatFrame

\* sdcard_erase(sys_partition_freeze_dir, sys_partition_freeze_dir + freeze_dir_sectors - 1)
EraseFreezeDir ==
    /\ pc = "erase_freeze_dir"
    /\ ops' = Append(ops, EraseOp(selected, sys_partition_freeze_dir, Sub32(Add32(sys_partition_freeze_dir, Z(freeze_dir_sectors)), Z(1))))
    /\ pc' = FormatSuccessor(pc)
    /\ UNCHANGED <<sysVars, sector_buffer>>
    /\ FormatFrame

\* sdcard_erase(sys_partition_service_dir, sys_partition_service_dir + service_dir_sectors - 1)
EraseServiceDir ==
    /\ pc = "erase_service_dir"
    /\ ops' = Append(ops, EraseOp(selected, sys_partition_service_dir, Sub32(Add32(sys_partition_service_dir, Z(service_dir_sectors)), Z(1))))
    /\ pc' = FormatSuccessor(pc)
    /\ UNCHANGED <<sysVars, sector_buffer>>
    /\ FormatFrame

\* build_dosbootsector, written at the partition start and at +6
WriteBootSectors ==
    /\ pc = "format_bootsector"
    /\ sector_buffer' = build_dosbootsector(fat_partition_sectors, fat_sectors)
    /\ ops' = ops \o <<WriteOp(selected, fat_partition_start, sector_buffer'), WriteOp(selected, Add32(fat_partition_start, Z(6)), sector_buffer')>>
    /\ pc' = FormatSuccessor(pc)
    /\ UNCHANGED sysVars
    /\ FormatFrame

\* build_fs_information_sector, written at +1 and at +7
WriteFsInformation ==
    /\ pc = "format_fs_information"
    /\ sector_buffer' = build_fs_information_sector(fs_clusters)
    /\ ops' = ops \o <<WriteOp(selected, Add32(fat_partition_start, Z(1)), sector_buffer'), WriteOp(selected, Add32(fat_partition_start, Z(7)), sector_buffer')>>
    /\ pc' = FormatSuccessor(pc)
    /\ UNCHANGED sysVars
    /\ FormatFrame

\* build_empty_fat, written at the first sector of each FAT
WriteFats ==
    /\ pc = "format_fats"
    /\ sector_buffer' = build_empty_fat
    /\ ops' = ops \o <<WriteOp(selected, Add32(fat_partition_start, fat1_sector), sector_buffer'), WriteOp(selected, Add32(fat_partition_start, fat2_sector), sector_buffer')>>
    /\ pc' = FormatSuccessor(pc)
    /\ UNCHANGED sysVars
    /\ FormatFrame

\* build_root_dir, written at the root directory's first sector
WriteRootDir ==
    /\ pc = "format_root_dir"
    /\ sector_buffer' = build_root_dir
    /\ sdcard_writesector(Add32(fat_partition_start, rootdir_sector))
    /\ pc' = FormatSuccessor(pc)
    /\ UNCHANGED sysVars
    /\ FormatFrame

\* the erase behind the first FAT sector starting one sector late: C20 tells
\* it from the erases of the code
GapErases_lateFatErase ==
    <<EraseOp(selected, Add32(Add32(fat_partition_start, Z(1)), Z(1)), Sub32(Add32(fat_partition_start, Z(6)), Z(1))),
      EraseOp(selected, Add32(Add32(fat_partition_start, Z(6)), Z(1)), Sub32(Add32(fat_partition_start, fat1_sector), Z(1))),
      EraseOp(selected, Add32(Add32(Add32(fat_partition_start, fat1_sector), Z(1)), Z(1)), Sub32(Add32(fat_partition_start, fat2_sector), Z(1))),
      EraseOp(selected, Add32(Add32(fat_partition_start, fat2_sector), Z(1)), Sub32(Add32(fat_partition_start, rootdir_sector), Z(1))),
      EraseOp(selected, Add32(Add32(fat_partition_start, rootdir_sector), Z(1)), Sub32(Add32(Add32(Add32(fat_partition_start, rootdir_sector), Z(1)), Z(sectors_per_cluster)), Z(1)))>>

\* the five sdcard_erase calls under "Make sure all other sectors are empty"
GapErases ==
    <<EraseOp(selected, Add32(Add32(fat_partition_start, Z(1)), Z(1)), Sub32(Add32(fat_partition_start, Z(6)), Z(1))),
      EraseOp(selected, Add32(Add32(fat_partition_start, Z(6)), Z(1)), Sub32(Add32(fat_partition_start, fat1_sector), Z(1))),
      EraseOp(selected, Add32(Add32(fat_partition_start, fat1_sector), Z(1)), Sub32(Add32(fat_partition_start, fat2_sector), Z(1))),
      EraseOp(selected, Add32(Add32(fat_partition_start, fat2_sector), Z(1)), Sub32(Add32(fat_partition_start, rootdir_sector), Z(1))),
      EraseOp(selected, Add32(Add32(fat_partition_start, rootdir_sector), Z(1)), Sub32(Add32(Add32(Add32(fat_partition_start, rootdir_sector), Z(1)), Z(sectors_per_cluster)), Z(1)))>>

EraseGaps ==
    /\ pc = "erase_gaps"
    /\ ops' = ops \o GapErases
    /\ pc' = FormatSuccessor(pc)
    /\ UNCHANGED <<sysVars, sector_buffer>>
    /\ FormatFrame

(***************************************************************************)
(* The file allocator collaborator                                         *)
(***************************************************************************)
\* what fat32_create_contiguous_file may return: 0 (no space) or the first
\* sector of the cluster after the root directory's
AllocResults == {Z(0), Add32(Add32(fat_partition_start, rootdir_sector), Z(sectors_per_cluster))}

AllocCall(name, len, result) == [name |-> name, len |-> len, result |-> result]

(***************************************************************************)
(* EmbeddedFilePopulator (firmware build)                                  *)
(***************************************************************************)
\* the slots main() lists and offers: version[0] and file_count both set
ActiveSlots == {n \in 0..(MAX_SLOT - 1) : mega65slot[n + 1].version0 # 0 /\ mega65slot[n + 1].file_count # 0}

RECURSIVE MaxOf(_)
MaxOf(S) == LET x == CHOOSE y \in S : TRUE IN IF S = {x} THEN x ELSE LET m == MaxOf(S \ {x}) IN IF x > m THEN x ELSE m

\* scan_slots() and the listing of the slots that hold files
ScanSlots ==
    /\ pc = "formatted"
    /\ variant = "firmware"
    /\ mega65slot' = [n \in 1..MAX_SLOT |-> IF flash[n].magic THEN [version0 |-> flash[n].version0, file_count |-> flash[n].file_count, file_offset |-> 1] ELSE EmptySlotInfo]
    /\ sector_buffer' = FlashImage(MAX_SLOT - 1, 0, 0)
    /\ LET active == {n \in 0..(MAX_SLOT - 1) : mega65slot'[n + 1].version0 # 0 /\ mega65slot'[n + 1].file_count # 0}
       IN  IF active = {}
           THEN /\ buffer' = buffer
                /\ pc' = "finish"
           ELSE /\ buffer' = STR_SlotFiles(MaxOf(active), mega65slot'[MaxOf(active) + 1].file_count)
                /\ pc' = "choose_slot"
    /\ UNCHANGED <<envVars, cardVars, planVars, sysVars, dont_confirm, ops, exit_code, populate_slot, file_count, file_offset, i, have_rom, have_sdfiles, allocs, histVars>>

\* the operator presses s, or the digit of a listed slot; for a digit
\* populate_file_system starts
ChooseSlot ==
    /\ pc = "choose_slot"
    /\ \E key \in {115} \cup {48 + n : n \in ActiveSlots} :
        IF key = 115
        THEN /\ pc' = "finish"
             /\ UNCHANGED <<buffer, populate_slot, file_count, file_offset, i>>
        ELSE /\ populate_slot' = key % 8
             /\ buffer' = STR_UsingFiles(populate_slot')
             /\ file_offset' = mega65slot[populate_slot' + 1].file_offset
             /\ file_count' = mega65slot[populate_slot' + 1].file_count
             /\ i' = 0
             /\ pc' = "populate"
    /\ UNCHANGED <<envVars, cardVars, planVars, sysVars, sector_buffer, dont_confirm, ops, exit_code, mega65slot, have_rom, have_sdfiles, allocs, histVars>>

\* the loop that builds eightthree[] from the header's file name
RECURSIVE EightThreeLoop(_, _, _)
EightThreeLoop(name, k, acc) ==
    IF name = <<>> THEN acc
    ELSE IF Head(name) = 46
         THEN IF 8 >= 11 THEN acc ELSE EightThreeLoop(Tail(name), 8, acc)
         ELSE IF k + 1 >= 11 THEN [acc EXCEPT ![k + 1] = Head(name)]
              ELSE EightThreeLoop(Tail(name), k + 1, [acc EXCEPT ![k + 1] = Head(name)])

EightThree(name) == EightThreeLoop(name, 0, [n \in 1..11 |-> 32])

\* the sectors written for a file of len bytes: addr = 0, 512, ... <= len
CopyCount(len) == (len \div 512) + 1

\* a population loop that gives up at the first file the allocator refuses:
\* C11 tells it from the loop of the code
PopulateFile_stopOnFailure ==
    /\ pc = "populate"
    /\ i < file_count
    /\ LET header == flash[populate_slot + 1].files[file_offset]
       IN  /\ have_rom' = IF header.name = STR_MEGA65_ROM THEN 1 ELSE have_rom
           /\ \E first_sector \in AllocResults :
               /\ allocs' = Append(allocs, AllocCall(EightThree(header.name), header.len, first_sector))
               /\ IF first_sector # Z(0)
                  THEN /\ ops' = ops \o [k \in 1..CopyCount(header.len) |-> WriteOp(selected, Add32(first_sector, Z(k - 1)), FlashImage(populate_slot, file_offset, 512 * (k - 1)))]
                       /\ sector_buffer' = FlashImage(populate_slot, file_offset, 512 * (CopyCount(header.len) - 1))
                       /\ i' = i + 1
                  ELSE /\ ops' = ops
                       /\ sector_buffer' = AllocatorScratch
                       /\ i' = file_count
           /\ file_offset' = header.next
    /\ UNCHANGED <<envVars, pc, cardVars, planVars, sysVars, buffer, dont_confirm, exit_code, mega65slot, populate_slot, file_count, have_sdfiles, histVars>>

\* one iteration of populate_file_system's loop over the staged files
PopulateFile ==
    /\ pc = "populate"
    /\ i < file_count
    /\ LET header == flash[populate_slot + 1].files[file_offset]
       IN  /\ have_rom' = IF header.name = STR_MEGA65_ROM THEN 1 ELSE have_rom
           /\ \E first_sector \in AllocResults :
               /\ allocs' = Append(allocs, AllocCall(EightThree(header.name), header.len, first_sector))
               /\ IF first_sector # Z(0)
                  THEN /\ ops' = ops \o [k \in 1..CopyCount(header.len) |-> WriteOp(selected, Add32(first_sector, Z(k - 1)), FlashImage(populate_slot, file_offset, 512 * (k - 1)))]
                       /\ sector_buffer' = FlashImage(populate_slot, file_offset, 512 * (CopyCount(header.len) - 1))
                  ELSE /\ ops' = ops
                       /\ sector_buffer' = AllocatorScratch
           /\ file_offset' = header.next
    /\ i' = i + 1
    /\ UNCHANGED <<envVars, pc, cardVars, planVars, sysVars, buffer, dont_confirm, exit_code, mega65slot, populate_slot, file_count, have_sdfiles, histVars>>

\* populate_file_system returns 0: have_sdfiles = !0
PopulateDone ==
    /\ pc = "populate"
    /\ i >= file_count
    /\ have_sdfiles' = 1
    /\ pc' = "finish"
    /\ UNCHANGED <<envVars, cardVars, planVars, sysVars, sector_buffer, buffer, dont_confirm, ops, exit_code, mega65slot, populate_slot, file_count, file_offset, i, have_rom, allocs, histVars>>

\* "SD Card has been formatted.": spin, or in batch mode wait for a key
Finish ==
    /\ pc = "finish"
    /\ pc' = IF dont_confirm = 0 THEN "done" ELSE "wait_key"
    /\ UNCHANGED <<envVars, cardVars, planVars, sysVars, sector_buffer, buffer, dont_confirm, ops, exit_code, fileVars, histVars>>

\* while (1) continue; at the end of main()
SpinWhenDone ==
    /\ pc = "done"
    /\ UNCHANGED vars

\* "Press ALMOST ANY KEY to format next card", goto next_card
NextCard ==
    /\ pc = "wait_key"
    /\ pass < MaxPass
    /\ pass' = pass + 1
    /\ pc' = "start"
    /\ UNCHANGED <<envVars, cardVars, planVars, sysVars, sector_buffer, buffer, dont_confirm, ops, exit_code, fileVars, typed, prompts, mismatches, fit_iterations>>

(***************************************************************************)
(* Staging of the file arguments (host build)                              *)
(***************************************************************************)
RECURSIVE BeforeDot(_)
BeforeDot(path) == IF path = <<>> \/ Head(path) = 46 THEN <<>> ELSE <<Head(path)>> \o BeforeDot(Tail(path))

IsSpace(c) == c \in {32, 9, 10, 11, 12, 13}

RECURSIVE SkipSpace(_)
SkipSpace(t) == IF t # <<>> /\ IsSpace(Head(t)) THEN SkipSpace(Tail(t)) ELSE t

RECURSIVE Word(_)
Word(t) == IF t = <<>> \/ IsSpace(Head(t)) THEN <<>> ELSE <<Head(t)>> \o Word(Tail(t))

\* sscanf(argv[i], "%[^.].%s", name, extension): the two fields and the
\* number of conversions
ScanName(path) ==
    LET name == BeforeDot(path)
        rest == SubSeq(path, Len(name) + 1, Len(path))
        extension == IF rest = <<>> THEN <<>> ELSE Word(SkipSpace(Tail(rest)))
    IN  [name |-> name, extension |-> extension, converted |-> IF name = <<>> THEN 0 ELSE IF extension = <<>> THEN 1 ELSE 2]

\* "%-8s%-3s", then lower case letters made upper case
PadTo(t, n) == t \o [k \in 1..(IF Len(t) < n THEN n - Len(t) ELSE 0) |-> 32]

UpperCase(t) == [k \in 1..Len(t) |-> IF k <= 12 /\ t[k] >= 97 /\ t[k] <= 122 THEN t[k] - 32 ELSE t[k]]

DosName(name, extension) == UpperCase(PadTo(name, 8) \o PadTo(extension, 3))

\* the buffer written as sector k (0-based) of argument n: fread() fills
\* it while the file has bytes left and leaves it alone afterwards
RECURSIVE HostSector(_, _, _)
HostSector(n, size, k) == IF 512 * k < size THEN FileImage(n, k) ELSE IF k = 0 THEN AllocatorScratch ELSE HostSector(n, size, k - 1)

\* one iteration of the loop over argv[1..]
HostStageFile ==
    /\ pc \in {"formatted", "staging"}
    /\ variant = "host"
    /\ i < Len(argv)
    /\ LET arg == argv[i + 1]
           scan == ScanName(arg.path)
       IN  IF ~arg.readable \/ scan.converted # 2 \/ Len(scan.name) > 8 \/ Len(scan.extension) > 3
           THEN /\ pc' = "exited"
                /\ exit_code' = 255
                /\ UNCHANGED <<ops, allocs, sector_buffer, i>>
           ELSE /\ \E first_sector \in AllocResults :
                    /\ allocs' = Append(allocs, AllocCall(DosName(scan.name, scan.extension), arg.size, first_sector))
                    /\ IF first_sector # Z(0)
                       THEN /\ ops' = ops \o [k \in 1..CopyCount(arg.size) |-> WriteOp(selected, Add32(first_sector, Z(k - 1)), HostSector(i + 1, arg.size, k - 1))]
                            /\ sector_buffer' = HostSector(i + 1, arg.size, CopyCount(arg.size) - 1)
                       ELSE /\ ops' = ops
                            /\ sector_buffer' = AllocatorScratch
                /\ i' = i + 1
                /\ pc' = "staging"
                /\ exit_code' = exit_code
    /\ UNCHANGED <<envVars, cardVars, planVars, sysVars, buffer, dont_confirm, mega65slot, populate_slot, file_count, file_offset, have_rom, have_sdfiles, histVars>>

\* return 0
HostReturn ==
    /\ pc \in {"formatted", "staging"}
    /\ variant = "host"
    /\ i >= Len(argv)
    /\ pc' = "exited"
    /\ exit_code' = 0
    /\ UNCHANGED <<envVars, cardVars, planVars, sysVars, sector_buffer, buffer, dont_confirm, ops, fileVars, histVars>>

(***************************************************************************)
(* Specification                                                           *)
(***************************************************************************)
Next ==
    \/ Probe
    \/ SelectCard
    \/ Plan
    \/ FitStep
    \/ PlanFinish
    \/ ConfirmFixMbr
    \/ ConfirmBatch
    \/ ConfirmMismatch
    \/ ConfirmProceed
    \/ SpinAfterFixMbr
    \/ HostConfirm
    \/ WriteMBR
    \/ WriteSysSector
    \/ WriteSysConfig
    \/ EraseConfigArea
    \/ EraseFreezeDir
    \/ EraseServiceDir
    \/ WriteBootSectors
    \/ WriteFsInformation
    \/ WriteFats
    \/ WriteRootDir
    \/ EraseGaps
    \/ ScanSlots
    \/ ChooseSlot
    \/ PopulateFile
    \/ PopulateDone
    \/ Finish
    \/ SpinWhenDone
    \/ NextCard
    \/ HostStageFile
    \/ HostReturn

Spec == Init /\ [][Next]_vars

(***************************************************************************)
(* Positions of main(), grouped                                            *)
(***************************************************************************)
PlanningPcs == {"start", "select", "plan", "fit"}

FormatPcs == {"format_mbr", "format_sys_sector", "format_sys_config", "erase_config_area", "erase_freeze_dir", "erase_service_dir", "format_bootsector", "format_fs_information", "format_fats", "format_root_dir", "erase_gaps"}

PopulatePcs == {"formatted", "choose_slot", "populate", "staging", "finish", "done", "wait_key"}

\* the phrases the claims name
ProceedPhrase == STR_DELETE_EVERYTHING

SuppressPhrase == STR_FOLTERLOS_MODUS_BITTE

MbrOnlyPhrase == STR_FIX_MBR

\* a line without its trailing carriage returns and line feeds
RECURSIVE StripCRLF(_)
StripCRLF(line) == IF line # <<>> /\ line[Len(line)] \in {CR, LF} THEN StripCRLF(SubSeq(line, 1, Len(line) - 1)) ELSE line

(***************************************************************************)
(* C1: no sdcard_writesector and no sdcard_erase is issued before a        *)
(* confirmation phrase has been accepted: during the first pass nothing is *)
(* written while the program probes, plans and prompts, and whenever       *)
(* something has been written the line compared at the confirmation was an *)
(* accepted phrase.  In the host build a typed line that differs from      *)
(* "DELETE EVERYTHING" once its trailing CR/LF are stripped ends the run   *)
(* with a nonzero exit code and nothing written or erased.                 *)
(***************************************************************************)
C1_NoWriteBeforeConfirmation ==
    /\ (pass = 1 /\ pc \in PlanningPcs \cup {"confirm"}) => ops = <<>>
    /\ (ops # <<>> /\ variant = "firmware") => (typed.how = "line" /\ typed.line \in {ProceedPhrase, SuppressPhrase, MbrOnlyPhrase, STR_BATCH_MODE})
    /\ (ops # <<>> /\ variant = "host") => (typed.how # "none" /\ StripCRLF(typed.line) = ProceedPhrase)
    /\ (variant = "host" /\ typed.how = "line" /\ StripCRLF(typed.line) # ProceedPhrase) => (pc = "exited" /\ exit_code > 0 /\ ops = <<>>)

\* the host build has read a line that does not match and has exited
C1_Witness == variant = "host" /\ typed.how = "line" /\ typed.line = STR_DELETE_EVERYTHING \o <<32, LF>> /\ pc = "exited" /\ exit_code = 255 /\ ops = <<>>

(***************************************************************************)
(* C2 as stated: at the firmware prompt exactly three phrases are          *)
(* accepted; any other typed line leaves the program at the prompt with    *)
(* nothing written.                                                        *)
(***************************************************************************)
C2_ExactlyThreePhrases ==
    (variant = "firmware" /\ pass = 1 /\ typed.how = "line" /\ typed.line \notin {ProceedPhrase, SuppressPhrase, MbrOnlyPhrase}) => (pc = "confirm" /\ ops = <<>>)

(***************************************************************************)
(* C2 as amended: four phrases are accepted.  "DELETE EVERYTHING",         *)
(* "BATCH MODE" and "FOLTERLOS MODUS BITTE" lead to Formatting (only the   *)
(* last sets dont_confirm), "FIX MBR" leads to the MBR rewrite and halt,   *)
(* and every other line, the empty one included, is answered by the        *)
(* mismatch message and leaves the program at the prompt with nothing      *)
(* written.                                                                *)
(***************************************************************************)
C2_FourPhrases ==
    (variant = "firmware" /\ pass = 1 /\ typed.how = "line") =>
        /\ typed.line = MbrOnlyPhrase => pc = "mbr_rewritten"
        /\ typed.line \in {ProceedPhrase, STR_BATCH_MODE} => (pc \in FormatPcs \cup PopulatePcs /\ dont_confirm = 0)
        /\ typed.line = SuppressPhrase => (pc \in FormatPcs \cup PopulatePcs /\ dont_confirm = 1)
        /\ typed.line \notin {ProceedPhrase, SuppressPhrase, MbrOnlyPhrase, STR_BATCH_MODE} => (pc = "confirm" /\ ops = <<>> /\ mismatches > 0 /\ dont_confirm = 0)

\* "BATCH MODE" was typed and the card has been formatted
C2_Witness == variant = "firmware" /\ typed.line = STR_BATCH_MODE /\ pc = "formatted" /\ ops # <<>>

(***************************************************************************)
(* The order of storage operations the specification gives for Formatting: *)
(* kind of operation, first sector, kind of image                          *)
(***************************************************************************)
OpSummary(o) == <<o.op, o.lba, o.img.kind>>

FormattingOrder ==
    <<  <<"write", Z(0), "mbr">>,
        <<"write", sys_partition_start, "sys_sector">>,
        <<"write", Add32(sys_partition_start, Z(1)), "sys_config">>,
        <<"erase", Add32(sys_partition_start, Z(2)), "zero">>,
        <<"erase", sys_partition_freeze_dir, "zero">>,
        <<"erase", sys_partition_service_dir, "zero">>,
        <<"write", fat_partition_start, "dosbootsector">>,
        <<"write", Add32(fat_partition_start, Z(6)), "dosbootsector">>,
        <<"write", Add32(fat_partition_start, Z(1)), "fs_information">>,
        <<"write", Add32(fat_partition_start, Z(7)), "fs_information">>,
        <<"write", Add32(fat_partition_start, fat1_sector), "empty_fat">>,
        <<"write", Add32(fat_partition_start, fat2_sector), "empty_fat">>,
        <<"write", Add32(fat_partition_start, rootdir_sector), "root_dir">>,
        <<"erase", Add32(fat_partition_start, Z(2)), "zero">>,
        <<"erase", Add32(fat_partition_start, Z(7)), "zero">>,
        <<"erase", Add32(Add32(fat_partition_start, fat1_sector), Z(1)), "zero">>,
        <<"erase", Add32(Add32(fat_partition_start, fat2_sector), Z(1)), "zero">>,
        <<"erase", Add32(Add32(fat_partition_start, rootdir_sector), Z(1)), "zero">>  >>

(***************************************************************************)
(* C3: during the first Formatting pass the log of storage operations is   *)
(* always an initial part of the order MBR, system header, system config,  *)
(* three erases of the system partition, boot sector and backup, FS-info   *)
(* and backup, FAT1 and FAT2, root directory, five gap erases; when        *)
(* Formatting has completed the log is that whole order, every operation   *)
(* on the selected card, and later steps leave these first operations in   *)
(* place.                                                                  *)
(***************************************************************************)
C3_FormattingOrder ==
    (pass = 1 /\ pc \in FormatPcs \cup PopulatePcs) =>
        /\ pc \in FormatPcs => Len(ops) < Len(FormattingOrder)
        /\ pc \in PopulatePcs => Len(ops) >= Len(FormattingOrder)
        /\ pc = "formatted" => Len(ops) = Len(FormattingOrder)
        /\ \A k \in 1..Len(FormattingOrder) : k <= Len(ops) => (OpSummary(ops[k]) = FormattingOrder[k] /\ ops[k].bus = selected)

\* Formatting has completed on a card whose FAT32 metadata lies where planned
C3_Witness == pass = 1 /\ pc = "formatted" /\ Len(ops) = 18 /\ variant = "firmware" /\ sdcard_sectors = Z(8192)

(***************************************************************************)
(* C4: once planned, for every card of at least 0x800 sectors, the FAT32   *)
(* partition starts at 0x800, the system partition starts right behind it, *)
(* the two partitions and the first 0x800 sectors add up to the card (over *)
(* the true integers), and the system partition is a multiple of 2048      *)
(* sectors no larger than min((total - 0x800) / 2, 4194304).               *)
(***************************************************************************)
C4_PartitionArithmetic ==
    (pc \notin PlanningPcs /\ ZLe(Z(2048), sdcard_sectors)) =>
        /\ fat_partition_start = Z(2048)
        /\ sys_partition_start = ZAdd(Z(2048), fat_partition_sectors)
        /\ ZAdd(ZAdd(fat_partition_sectors, sys_partition_sectors), Z(2048)) = sdcard_sectors
        /\ ZModK(sys_partition_sectors, 2048) = 0
        /\ ZLe(sys_partition_sectors, ZDivK(ZSub(sdcard_sectors, Z(2048)), 2))
        /\ ZLe(sys_partition_sectors, <<64, 0>>)
        /\ ZLe(Z(0), fat_partition_sectors)
        /\ ZLe(ZAdd(fat_partition_start, fat_partition_sectors), sys_partition_start)

\* a planned card large enough for the system partition to be capped
C4_Witness == pc = "confirm" /\ sys_partition_sectors = <<64, 0>> /\ ZLt(<<256, 0>>, sdcard_sectors)

(***************************************************************************)
(* C5 as stated: when the cluster-fitting loop has exited,                 *)
(* 2*fat_sectors + (fs_clusters-2)*8 <= fat_partition_sectors - 568 over   *)
(* the true integers, with fat_sectors = ceil(fs_clusters/128), for every  *)
(* 32-bit card size.                                                       *)
(***************************************************************************)
C5_GeometryFits ==
    pc \notin PlanningPcs =>
        /\ ZLe(ZAdd(ZMulK(fat_sectors, 2), ZMulK(ZSub(fs_clusters, Z(2)), 8)), ZSub(ZSub(ZSub(sdcard_sectors, Z(2048)), sys_partition_sectors), Z(568)))
        /\ fat_sectors = ZDivK(ZAdd(fs_clusters, Z(127)), 128)

(***************************************************************************)
(* C6 as stated: a card too small for a valid volume is refused before     *)
(* anything is written; the run is never in Formatting, and has never      *)
(* written or erased, with fs_clusters below 3.                            *)
(* Stated for runs whose confirmation line was really read.                *)
(***************************************************************************)
C6_NoFormattingBelowThreeClusters ==
    (typed.how = "line" /\ (pc \in FormatPcs \/ ops # <<>>)) => ZLe(Z(3), fs_clusters)

(***************************************************************************)
(* C7 as stated: dont_confirm is clear at program start and set only by    *)
(* the suppress-prompts phrase; once it is set, the confirmation step of   *)
(* every later pass reads no line and goes on to Formatting.               *)
(***************************************************************************)
C7_BatchPassSkipsPrompt ==
    /\ [](pc = "start" /\ pass = 1 => dont_confirm = 0)
    /\ [][dont_confirm' # dont_confirm => (dont_confirm' = 1 /\ typed'.line = SuppressPhrase)]_vars
    /\ [][(pc = "confirm" /\ dont_confirm = 1) => (pc' = "format_mbr" /\ typed' = typed)]_vars

(***************************************************************************)
(* C8: after "FIX MBR" the only storage operation of the run is one write  *)
(* of the MBR built from the planned partition values to sector 0 of the   *)
(* selected card; nothing is erased, no file is allocated, every other     *)
(* sector holds what it held before, and the program stays there forever.  *)
(***************************************************************************)
C8_FixMbrWritesOnlyTheMbr ==
    /\ [](pc = "mbr_rewritten" =>
            /\ typed.line = MbrOnlyPhrase
            /\ ops = <<WriteOp(selected, Z(0), Image("mbr", <<Add32(Z(2048), fat_partition_sectors), sys_partition_sectors, Z(2048), fat_partition_sectors>>))>>
            /\ allocs = <<>>
            /\ \A lba \in {Z(1), fat_partition_start, Add32(fat_partition_start, Z(1)), sys_partition_start, Add32(sys_partition_start, Z(1))} : \A bus \in {0, 1} : sdcard_readsector(bus, lba) = OldImage(bus, lba))
    /\ [][pc = "mbr_rewritten" => UNCHANGED vars]_vars

\* "FIX MBR" has been typed and the MBR has been rewritten
C8_Witness == pc = "mbr_rewritten" /\ Len(ops) = 1 /\ ops[1].op = "write" /\ ops[1].lba = Z(0) /\ ops[1].img.kind = "mbr" /\ typed.line = STR_FIX_MBR

(***************************************************************************)
(* C9 as stated: when Formatting has completed, sector                     *)
(* fat_partition_start + 6 holds the boot sector image of                  *)
(* fat_partition_start and sector fat_partition_start + 7 holds the        *)
(* FS-info image of fat_partition_start + 1.                               *)
(* Stated for runs whose confirmation line was really read.                *)
(***************************************************************************)
C9_BackupsMirrorPrimaries ==
    (typed.how = "line" /\ pc = "formatted") =>
        /\ sdcard_readsector(selected, fat_partition_start).kind = "dosbootsector"
        /\ sdcard_readsector(selected, Add32(fat_partition_start, Z(6))) = sdcard_readsector(selected, fat_partition_start)
        /\ sdcard_readsector(selected, Add32(fat_partition_start, Z(1))).kind = "fs_information"
        /\ sdcard_readsector(selected, Add32(fat_partition_start, Z(7))) = sdcard_readsector(selected, Add32(fat_partition_start, Z(1)))

(***************************************************************************)
(* C10 as stated: the erase that follows the write of the system config    *)
(* sector covers sys_partition_start + 2 up to sys_partition_start + 2047, *)
(* the sector before the freeze directory.                                 *)
(* Stated for runs whose confirmation line was really read.                *)
(***************************************************************************)
C10_ReservedAreaErased ==
    (typed.how = "line" /\ pass = 1 /\ pc \in (FormatPcs \ {"format_mbr", "format_sys_sector", "format_sys_config", "erase_config_area"}) \cup PopulatePcs) =>
        /\ ops[3] = WriteOp(selected, Add32(sys_partition_start, Z(1)), build_mega65_sys_config_sector)
        /\ ops[4].op = "erase"
        /\ ops[4].lba = Add32(sys_partition_start, Z(2))
        /\ ops[4].end = Add32(sys_partition_start, Z(2047))
        /\ Add32(ops[4].end, Z(1)) = sys_partition_freeze_dir

(***************************************************************************)
(* Staged files of a slot, in the order of their chain of headers          *)
(***************************************************************************)
\* the header the k-th iteration reads: the first one, then each next-offset
RECURSIVE ChainOffset(_, _)
ChainOffset(slot, k) == IF k = 1 THEN 1 ELSE flash[slot + 1].files[ChainOffset(slot, k - 1)].next

\* the header a copied sector was read behind
HeaderOf(o) == o.img.args[2][2]

\* the storage operations issued after the 18 of Formatting
StagedOps == SubSeq(ops, Len(FormattingOrder) + 1, Len(ops))

(***************************************************************************)
(* C11: populate_file_system calls the allocator once per staged file of   *)
(* the chosen slot, in the order of the chain of headers, whether or not   *)
(* earlier calls failed: while it runs the number of calls is the number   *)
(* of headers read, when it has returned there are file_count calls, the   *)
(* k-th for the k-th header of the chain.  Sectors are written only behind *)
(* headers whose call returned a sector.  Nothing is allocated or written  *)
(* for a slot without valid magic or with file_count 0, and when no slot   *)
(* is chosen.                                                              *)
(***************************************************************************)
C11_AllocatorCalls ==
    (variant = "firmware" /\ pass = 1) =>
        /\ pc = "populate" => Len(allocs) = i
        /\ (pc \in PopulatePcs /\ have_sdfiles = 1) => Len(allocs) = flash[populate_slot + 1].file_count
        /\ (pc \in PopulatePcs /\ pc # "populate" /\ have_sdfiles = 0) => allocs = <<>>
        /\ allocs # <<>> => (flash[populate_slot + 1].magic /\ flash[populate_slot + 1].file_count > 0)
        /\ \A k \in 1..Len(allocs) :
            LET header == flash[populate_slot + 1].files[ChainOffset(populate_slot, k)]
            IN  allocs[k].name = EightThree(header.name) /\ allocs[k].len = header.len
        /\ pc \in PopulatePcs => \A k \in 1..Len(StagedOps) :
            /\ StagedOps[k].op = "write"
            /\ StagedOps[k].img.kind = "flash"
            /\ HeaderOf(StagedOps[k]) \in 1..Len(allocs)
            /\ allocs[HeaderOf(StagedOps[k])].result # Z(0)
        /\ pc \in PopulatePcs => \A k \in 1..Len(allocs) :
            allocs[k].result # Z(0) => \E n \in 1..Len(StagedOps) : HeaderOf(StagedOps[n]) = k

\* the first of two files was refused, the second was still staged
C11_Witness == variant = "firmware" /\ pc = "finish" /\ have_sdfiles = 1 /\ Len(allocs) = 2 /\ allocs[1].result = Z(0) /\ allocs[2].result # Z(0) /\ Len(StagedOps) > 0

\* the sectors copied behind the k-th header
CopiedFor(k) == {n \in 1..Len(StagedOps) : HeaderOf(StagedOps[n]) = k}

\* ceil(len / 512)
SectorsOf(len) == (len + 511) \div 512

(***************************************************************************)
(* C12 as stated: when populate_file_system has returned, for every file   *)
(* whose allocation returned sector s and whose length is L, exactly       *)
(* ceil(L/512) sectors have been written for it, to s, s+1, ... in         *)
(* ascending order and from flash offsets 0, 512, ... behind its header,   *)
(* none at or beyond s + ceil(L/512).                                      *)
(***************************************************************************)
C12_CeilSectorsCopied ==
    (variant = "firmware" /\ pass = 1 /\ pc = "finish" /\ have_sdfiles = 1) =>
        \A k \in 1..Len(allocs) : allocs[k].result # Z(0) =>
            /\ Cardinality(CopiedFor(k)) = SectorsOf(allocs[k].len)
            /\ \A n \in CopiedFor(k) : ZLt(StagedOps[n].lba, Add32(allocs[k].result, Z(SectorsOf(allocs[k].len))))
            /\ \A n \in CopiedFor(k) : \E j \in 0..(SectorsOf(allocs[k].len) - 1) :
                /\ StagedOps[n].lba = Add32(allocs[k].result, Z(j))
                /\ StagedOps[n].img.args[3] = Z(512 * j)
            /\ \A n, m \in CopiedFor(k) : n < m => ZLt(StagedOps[n].lba, StagedOps[m].lba)

(***************************************************************************)
(* The 8.3 name the specification derives from a staged file name          *)
(***************************************************************************)
\* position of the first '.', or one past the end
FirstDot(name) == IF \E n \in 1..Len(name) : name[n] = 46 THEN CHOOSE n \in 1..Len(name) : name[n] = 46 /\ \A m \in 1..(n - 1) : name[m] # 46 ELSE Len(name) + 1

\* the first n characters of t, padded with spaces to n
Field(t, n) == [j \in 1..n |-> IF j <= Len(t) THEN t[j] ELSE 32]

BaseOf(name) == SubSeq(name, 1, FirstDot(name) - 1)

ExtensionOf(name) == SubSeq(name, FirstDot(name) + 1, Len(name))

(***************************************************************************)
(* C13 as stated: the name passed to the allocator for a staged file is    *)
(* the first 8 characters before the first '.', space padded, followed by  *)
(* the first 3 characters after it, space padded; characters of the base   *)
(* name beyond the 8th are dropped.                                        *)
(***************************************************************************)
C13_EightThreeName ==
    (variant = "firmware" /\ pass = 1) =>
        \A k \in 1..Len(allocs) :
            LET name == flash[populate_slot + 1].files[ChainOffset(populate_slot, k)].name
            IN  allocs[k].name = Field(BaseOf(name), 8) \o Field(ExtensionOf(name), 3)

\* positions of main() at which the system partition header has been written
HeaderWrittenPcs == (FormatPcs \ {"format_mbr", "format_sys_sector"}) \cup PopulatePcs

\* min(floor((sys_sectors - 2048) / 2049), 65535) over the true integers, 0
\* for a partition smaller than the reserved area
SlotCountOverIntegers(sys_sectors) ==
    LET q == ZDivK(ZSub(sys_sectors, Z(2048)), 2049)
    IN  IF ZLt(sys_sectors, Z(2048)) THEN Z(0) ELSE IF ZLe(Z(65535), q) THEN Z(65535) ELSE q

(***************************************************************************)
(* C14 as stated: for every sys_partition_sectors the planner produces the *)
(* header holds slot_count = min(floor((sys_partition_sectors - 2048) /    *)
(* 2049), 65535), computed without wraparound (0 for a partition too small *)
(* for one freeze and one service slot), and both directories have         *)
(* 1 + floor(slot_count / 4) sectors.  Stated for runs whose confirmation  *)
(* line was really read.                                                   *)
(***************************************************************************)
C14_SlotCount ==
    (typed.how = "line" /\ pass = 1 /\ pc \in HeaderWrittenPcs) =>
        LET slot_count == SlotCountOverIntegers(sys_partition_sectors)
        IN  /\ ZModK(sys_partition_sectors, 2048) = 0
            /\ ZLe(sys_partition_sectors, <<64, 0>>)
            /\ ops[2].img.kind = "sys_sector"
            /\ ops[2].img.args[4] = slot_count
            /\ ops[2].img.args[9] = slot_count
            /\ freeze_dir_sectors = 1 + (slot_count[2] \div 4)
            /\ service_dir_sectors = 1 + (slot_count[2] \div 4)
            /\ ZLt(sys_partition_sectors, Z(2048 + 2049)) => ops[2].img.args[4] = Z(0)

\* positions of main() at which the three erases of the system partition
\* have been issued
SystemErasedPcs == (FormatPcs \ {"format_mbr", "format_sys_sector", "format_sys_config", "erase_config_area", "erase_freeze_dir", "erase_service_dir"}) \cup PopulatePcs

(***************************************************************************)
(* C15 as stated: the service directory that Formatting erases starts at   *)
(* freeze directory + dir_size + slot_size * slot_count, the end of the    *)
(* freeze area, which is where the header's field at 0x20 (equal to the    *)
(* freeze size at 0x14) puts it relative to the start of the freeze area;  *)
(* with slot_count > 0 the erased service directory lies behind the freeze *)
(* directory and every freeze slot.  Stated for runs whose confirmation    *)
(* line was really read.                                                   *)
(***************************************************************************)
C15_ServiceDirFollowsFreezeArea ==
    (typed.how = "line" /\ pass = 1 /\ pc \in SystemErasedPcs) =>
        LET header == ops[2].img.args
            freeze_start == ops[5].lba
            service_start == ops[6].lba
            freeze_end == ZAdd(freeze_start, ZAdd(header[5], ZMulK(header[4], SysSlotSize)))
        IN  /\ ops[5].op = "erase" /\ ops[6].op = "erase"
            /\ header[6] = header[2]
            /\ service_start = Wrap32(freeze_end)
            /\ service_start = Add32(freeze_start, header[6])
            /\ ZLt(Z(0), header[4]) => (ZLt(ops[5].end, service_start) /\ ZLe(freeze_end, service_start))

(***************************************************************************)
(* The sector builders byte by byte.  sector_buffer is here a function     *)
(* from the offsets 0..511 to bytes; the builders are applied, in any      *)
(* order, to parameters drawn from samples of the 32-bit values, each on   *)
(* the buffer the previous one left.                                       *)
(***************************************************************************)
Offsets == 0..511

\* (v >> (n * 8)) & 0xff for a 32-bit v
ByteOf(v, n) == IF n = 0 THEN v[2] % 256 ELSE IF n = 1 THEN v[2] \div 256 ELSE IF n = 2 THEN v[1] % 256 ELSE v[1] \div 256

\* sector_buffer[at + j] = values[j + 1] for every j
Poke(bytes, at, values) == [n \in Offsets |-> IF n >= at /\ n < at + Len(values) THEN values[(n - at) + 1] ELSE bytes[n]]

\* the four stores of a 32-bit value, lowest byte first
Poke32(bytes, at, v) == Poke(bytes, at, <<ByteOf(v, 0), ByteOf(v, 1), ByteOf(v, 2), ByteOf(v, 3)>>)

clear_sector_buffer(bytes) == [n \in Offsets |-> 0]

fat_bytes == <<248, 255, 255, 15, 255, 255, 255, 15, 248, 255, 255, 15>>

\* a builder that leaves the previous content of the buffer in place: C16
\* tells it from build_mbr
build_mbr_bytes_uncleared(bytes, sys_start, sys_sectors, fat_start, fat_sectors_) ==
    LET b1 == Poke(bytes, 440, <<131, 125, 203, 166>>)
        b2 == Poke(b1, 466, <<65>>)
        b3 == Poke32(b2, 470, sys_start)
        b4 == Poke32(b3, 474, sys_sectors)
        b5 == Poke(b4, 450, <<12>>)
        b6 == Poke32(b5, 454, fat_start)
        b7 == Poke32(b6, 458, fat_sectors_)
    IN  Poke(b7, 510, <<85, 170>>)

\* build_mbr, store by store
build_mbr_bytes(bytes, sys_start, sys_sectors, fat_start, fat_sectors_) ==
    LET b0 == clear_sector_buffer(bytes)
        b1 == Poke(b0, 440, <<131, 125, 203, 166>>)
        b2 == Poke(b1, 466, <<65>>)
        b3 == Poke32(b2, 470, sys_start)
        b4 == Poke32(b3, 474, sys_sectors)
        b5 == Poke(b4, 450, <<12>>)
        b6 == Poke32(b5, 454, fat_start)
        b7 == Poke32(b6, 458, fat_sectors_)
    IN  Poke(b7, 510, <<85, 170>>)

\* a builder that counts cluster 2 as free: C17 tells it from
\* build_fs_information_sector
build_fs_information_sector_bytes_rootFree(bytes, clusters) ==
    LET b0 == clear_sector_buffer(bytes)
        b1 == Poke(b0, 0, <<82, 82, 97, 65>>)
        b2 == Poke(b1, 484, <<114, 114, 65, 97>>)
        b3 == Poke32(b2, 488, Sub32(clusters, Z(2)))
        b4 == Poke(b3, 492, <<2>>)
    IN  Poke(b4, 510, <<85, 170>>)

\* build_fs_information_sector, store by store
build_fs_information_sector_bytes(bytes, clusters) ==
    LET b0 == clear_sector_buffer(bytes)
        b1 == Poke(b0, 0, <<82, 82, 97, 65>>)
        b2 == Poke(b1, 484, <<114, 114, 65, 97>>)
        b3 == Poke32(b2, 488, Sub32(clusters, Z(3)))
        b4 == Poke(b3, 492, <<2 + 1>>)
    IN  Poke(b4, 510, <<85, 170>>)

\* build_empty_fat, store by store
build_empty_fat_bytes(bytes) == Poke(clear_sector_buffer(bytes), 0, fat_bytes)

\* samples of the 32-bit values: 0, 0x800, 0xFFFFF, 0x100000, 0x200000,
\* 0x12345678, 0xFFFFFFFF
Values32 == {Z(0), Z(2048), <<15, 65535>>, <<16, 0>>, <<32, 0>>, <<4660, 22136>>, <<65535, 65535>>}

\* cluster counts: one too small, the smallest, some within the first FAT sector, some the
\* planner computes for larger cards
ClusterCounts == {Z(2), Z(3), Z(4), Z(100), Z(128), Z(441), Z(4019), <<8176, 7865>>, <<65535, 65535>>}

\* parameters of the builders
ByteInputs == {<<a, b, c, d, Z(3)>> : a \in Values32, b \in Values32, c \in {Z(2048), <<65535, 65535>>}, d \in Values32} \cup {<<<<16, 0>>, <<32, 0>>, Z(2048), <<15, 65535>>, n>> : n \in ClusterCounts}

\* what the shared buffer may hold before the first builder runs
StaleBuffers == {[n \in Offsets |-> 255], [n \in Offsets |-> n % 256]}

BytePcs == {"bytes", "mbr_bytes", "fs_information_bytes", "empty_fat_bytes"}

ByteInit ==
    /\ variant \in {"firmware"}
    /\ cards = [b \in 0..1 |-> NoCard]
    /\ pc = "bytes"
    /\ slotAvail = 0
    /\ cardSlot = 0
    /\ selected = 0
    /\ sdcard_sectors = Z(0)
    /\ \E p \in ByteInputs :
        /\ sys_partition_start = p[1]
        /\ sys_partition_sectors = p[2]
        /\ fat_partition_start = p[3]
        /\ fat_partition_sectors = p[4]
        /\ fs_clusters = p[5]
    /\ fat_available_sectors = Z(0)
    /\ fat_sectors = Z(0)
    /\ sectors_required = Z(0)
    /\ fat1_sector = Z(0)
    /\ fat2_sector = Z(0)
    /\ rootdir_sector = Z(0)
    /\ fs_data_sectors = Z(0)
    /\ sys_partition_freeze_dir = Z(0)
    /\ freeze_dir_sectors = 0
    /\ sys_partition_service_dir = Z(0)
    /\ service_dir_sectors = 0
    /\ sector_buffer \in StaleBuffers
    /\ buffer = <<>>
    /\ dont_confirm = 0
    /\ ops = <<>>
    /\ exit_code = -1
    /\ flash = BlankFlash
    /\ argv = <<>>
    /\ mega65slot = [n \in 1..MAX_SLOT |-> EmptySlotInfo]
    /\ populate_slot = 0
    /\ file_count = 0
    /\ file_offset = 0
    /\ i = 0
    /\ have_rom = 0
    /\ have_sdfiles = 0
    /\ allocs = <<>>
    /\ typed = NothingTyped
    /\ prompts = 0
    /\ mismatches = 0
    /\ fit_iterations = 0
    /\ pass = 1

\* what a builder leaves alone
ByteFrame == UNCHANGED <<envVars, cardVars, planVars, sysVars, buffer, dont_confirm, ops, exit_code, fileVars, histVars>>

BuildMbrBytes ==
    /\ pc \in BytePcs
    /\ sector_buffer' = build_mbr_bytes(sector_buffer, sys_partition_start, sys_partition_sectors, fat_partition_start, fat_partition_sectors)
    /\ pc' = "mbr_bytes"
    /\ ByteFrame

BuildFsInformationBytes ==
    /\ pc \in BytePcs
    /\ sector_buffer' = build_fs_information_sector_bytes(sector_buffer, fs_clusters)
    /\ pc' = "fs_information_bytes"
    /\ ByteFrame

BuildEmptyFatBytes ==
    /\ pc \in BytePcs
    /\ sector_buffer' = build_empty_fat_bytes(sector_buffer)
    /\ pc' = "empty_fat_bytes"
    /\ ByteFrame

ByteNext ==
    \/ BuildMbrBytes
    \/ BuildFsInformationBytes
    \/ BuildEmptyFatBytes

ByteSpec == ByteInit /\ [][ByteNext]_vars

\* the little-endian 32-bit value at an offset
Le32At(bytes, at) == <<bytes[at + 2] + (256 * bytes[at + 3]), bytes[at] + (256 * bytes[at + 1])>>

(***************************************************************************)
(* C16: the MBR that build_mbr leaves in the buffer has the signature      *)
(* 83 7D CB A6 at 0x1B8, type 0x0C at 0x1C2 with fat_partition_start and   *)
(* fat_partition_sectors little-endian at 0x1C6 and 0x1CA, type 0x41 at    *)
(* 0x1D2 with sys_partition_start and sys_partition_sectors little-endian  *)
(* at 0x1D6 and 0x1DA, 55 AA at 0x1FE, and zero everywhere else, whatever  *)
(* the buffer held before; the two entries decode to the values given.     *)
(***************************************************************************)
C16_MbrBytes ==
    pc = "mbr_bytes" =>
        /\ DOMAIN sector_buffer = Offsets
        /\ <<sector_buffer[440], sector_buffer[441], sector_buffer[442], sector_buffer[443]>> = <<131, 125, 203, 166>>
        /\ sector_buffer[450] = 12
        /\ sector_buffer[466] = 65
        /\ sector_buffer[510] = 85 /\ sector_buffer[511] = 170
        /\ Le32At(sector_buffer, 454) = fat_partition_start
        /\ Le32At(sector_buffer, 458) = fat_partition_sectors
        /\ Le32At(sector_buffer, 470) = sys_partition_start
        /\ Le32At(sector_buffer, 474) = sys_partition_sectors
        /\ \A n \in Offsets : sector_buffer[n] \in 0..255
        /\ \A n \in Offsets \ ((440..443) \cup {450} \cup (454..461) \cup {466} \cup (470..477) \cup {510, 511}) : sector_buffer[n] = 0

\* the example of the specification, built over a buffer that held a FAT
C16_Witness == pc = "mbr_bytes" /\ sys_partition_start = <<16, 0>> /\ sys_partition_sectors = <<32, 0>> /\ fat_partition_start = Z(2048) /\ fat_partition_sectors = <<15, 65535>> /\ sector_buffer[450] = 12 /\ sector_buffer[466] = 65 /\ sector_buffer[0] = 0

\* entry number e of a FAT sector
FatEntry(bytes, e) == Le32At(bytes, 4 * e)

RoomForThreeClusters == ZLe(Z(2048), sdcard_sectors) /\ ZLe(Z(24), ZSub(ZSub(ZSub(sdcard_sectors, Z(2048)), sys_partition_sectors), Z(568)))

(***************************************************************************)
(* C18: on a card with room for 3 clusters the cluster-fitting loop        *)
(* terminates: every iteration makes fs_clusters strictly smaller, it      *)
(* never wraps below zero or drops below 3 (so it never exceeds the        *)
(* fat_available_sectors / 8 it started from), the loop is never stopped   *)
(* by the bound on iterations, and on exit fat_sectors * 128 >=            *)
(* fs_clusters.                                                            *)
(***************************************************************************)
C18_FittingLoopTerminates ==
    /\ []((RoomForThreeClusters /\ pc \notin {"start", "select", "plan"}) =>
            /\ ZLe(Z(3), fs_clusters)
            /\ ZLe(fs_clusters, ZDivK(fat_available_sectors, 8))
            /\ pc = "fit" => (fit_iterations < MaxFitIterations \/ ~ZLt(fat_available_sectors, sectors_required))
            /\ pc # "fit" => ZLe(fs_clusters, ZMulK(fat_sectors, 128)))
    /\ [][(RoomForThreeClusters /\ pc = "fit" /\ pc' = "fit") => (ZLt(fs_clusters', fs_clusters) /\ ZLe(Z(3), fs_clusters'))]_vars

\* the loop has run several times and has exited
C18_Witness == RoomForThreeClusters /\ pc = "confirm" /\ fit_iterations >= 3 /\ ZLe(fs_clusters, ZMulK(fat_sectors, 128)) /\ ~ZLt(fat_available_sectors, sectors_required)

\* half-open range first..beyond-1 over the true integers
Within(o, first, beyond) == ZLe(first, o.lba) /\ ZLe(o.lba, o.end) /\ ZLt(o.end, beyond)

SystemOps == 2..6

Fat32Ops == 7..18

(***************************************************************************)
(* C19 as stated: every storage operation of Formatting addresses sectors  *)
(* of the card: a write has LBA < total_sectors, an erase has              *)
(* start <= end < total_sectors; the FAT32 metadata operations lie in      *)
(* [0x800, sys_partition_start) and the operations on the system           *)
(* partition in [sys_partition_start, sys_partition_start +                *)
(* sys_partition_sectors).                                                 *)
(* Stated for runs whose confirmation line was really read.                *)
(***************************************************************************)
C19_OperationsAddressValidSectors ==
    (typed.how = "line" /\ pass = 1 /\ pc \in PopulatePcs) =>
        /\ \A k \in 1..Len(FormattingOrder) : Within(ops[k], Z(0), sdcard_sectors)
        /\ \A k \in Fat32Ops : Within(ops[k], Z(2048), sys_partition_start)
        /\ \A k \in SystemOps : Within(ops[k], sys_partition_start, ZAdd(sys_partition_start, sys_partition_sectors))

\* the operations of the Formatting pass
FormattingOps == SubSeq(ops, 1, Len(FormattingOrder))

\* the sectors at which the content of the card can change from one sector
\* to the next: where an operation starts and just behind where it ends
Breakpoints == UNION {{FormattingOps[k].lba, ZAdd(FormattingOps[k].end, Z(1))} : k \in 1..Len(FormattingOrder)}

\* some operation of the pass covers the sector
Touched(lba) == \E k \in 1..Len(FormattingOrder) : Covers(FormattingOps[k], selected, lba)

\* first sector of the FAT32 partition and the last sector of the range
MetadataFirst == fat_partition_start

MetadataLast == ZAdd(fat_partition_start, ZAdd(rootdir_sector, Z(7)))

\* every sector of first..last is touched; the content is constant between
\* two breakpoints, so the breakpoints in the range and its first sector
\* stand for all sectors
AllTouched(first, last) ==
    \A lba \in Breakpoints \cup {first} : (ZLe(first, lba) /\ ZLe(lba, last)) => Touched(lba)

\* the offsets into a FAT copy that stand for all its sectors
FatOffsets ==
    LET candidates == {Z(0)} \cup {ZSub(b, ZAdd(fat_partition_start, fat1_sector)) : b \in Breakpoints} \cup {ZSub(b, ZAdd(fat_partition_start, fat2_sector)) : b \in Breakpoints}
    IN  {off \in candidates : ZLe(Z(0), off) /\ ZLt(off, fat_sectors)}

(***************************************************************************)
(* C20: when Formatting has completed, every sector from                   *)
(* fat_partition_start to fat_partition_start + rootdir_sector + 7 has     *)
(* been written or erased in this pass, and sector i of the first FAT      *)
(* reads the same as sector i of the second FAT, for every i below         *)
(* fat_sectors.                                                            *)
(* Stated for runs whose confirmation line was really read.                *)
(***************************************************************************)
C20_NoStaleMetadata ==
    (typed.how = "line" /\ pass = 1 /\ pc = "formatted") =>
        /\ AllTouched(MetadataFirst, MetadataLast)
        /\ \A off \in FatOffsets :
              sdcard_readsector(selected, ZAdd(ZAdd(fat_partition_start, fat1_sector), off)) = sdcard_readsector(selected, ZAdd(ZAdd(fat_partition_start, fat2_sector), off))

\* Formatting has completed on a card whose FAT copies are longer than one
\* sector: the first sector of each is the empty FAT, the last one is erased
C20_Witness ==
    /\ typed.how = "line" /\ pass = 1 /\ pc = "formatted" /\ ZLt(Z(1), fat_sectors)
    /\ sdcard_readsector(selected, ZAdd(fat_partition_start, fat2_sector)) = build_empty_fat
    /\ sdcard_readsector(selected, ZAdd(ZAdd(fat_partition_start, fat2_sector), ZSub(fat_sectors, Z(1)))) = ZeroImage
    /\ ZSub(fat_sectors, Z(1)) \in FatOffsets

====
